---- MODULE Spec2Model ----
(***************************************************************************)
(* Model of the <netsi-address> custom element (src/src/netsi-address.ts,  *)
(* the class that the file finally exports, lines 514-880; the bundle in   *)
(* src/unnamed/part_001 is built from it).                                 *)
(*                                                                         *)
(* Every action is one task of the browser's event loop: an input event,  *)
(* a timer firing, a key press, a click, the settlement of a fetch with    *)
(* the continuation of the async function that awaits it.                  *)
(*                                                                         *)
(* Text is a sequence of one-character strings.  A JavaScript value is a   *)
(* tagged record (JsUndefined, JsNull, JsString, JsObject).  A field-path  *)
(* key of config.ui is kept as the sequence of its dot-separated segments. *)
(***************************************************************************)
EXTENDS Integers, Sequences, FiniteSets, TLC

VARIABLES
  config,           \* this._config (NoConfig before the first assignment)
  inputEl,          \* this._inputEl is non-null
  listEl,           \* this._suggestionsEl is non-null
  listInDom,        \* this._suggestionsEl is attached to document.body
  orphanLists,      \* <ul> elements of earlier initializations still in the document
  styleInDom,       \* <style id="netsi-address-styles"> is in the document
  inputListening,   \* "input" and "keydown" listeners are on the input element
  docListening,     \* "click" on document, "resize" and "scroll" on window
  inputValue,       \* value of the primary input element
  fields,           \* value of every other target element, by selector
  items,            \* the <li> of this._suggestionsEl: the rendered suggestions
  visible,          \* this._suggestionsEl has class "visible" (dropdown Open)
  highlightedIndex, \* this._highlightedIndex, 0-based, -1 for none
  hasController,    \* this._abortController is non-null
  reqs,             \* autocomplete fetches awaited by a lookup()
  selReqs,          \* full-record fetches awaited by a select(), each with the ids of
                    \* those pending when it started and whether a selection
                    \* started after it has written its values (history)
  timers,           \* pending setTimeout timers, by remaining time
  timeoutId,        \* debounce's timeoutId: remaining time of its timer, -1 if not pending
  sinceInput,       \* time since the last input event (history, saturating)
  burstInputs,      \* input events of the current burst: those with no timer-fired lookup between them (history, saturating)
  burstLookups,     \* timer-fired lookups since the last input event (history, saturating)
  last,             \* what the most recent task did (history)
  probe,            \* the arguments and the result of a direct call of _getValue
  other,            \* a second NetsiAddress element of the page, by its lifecycle
  selected          \* a selection has succeeded and no input event followed it (history)

vars == <<config, inputEl, listEl, listInDom, orphanLists, styleInDom,
          inputListening, docListening, inputValue, fields, items, visible,
          highlightedIndex, hasController, reqs,
          selReqs, timers, timeoutId, sinceInput, burstInputs, burstLookups,
          last, probe, other, selected>>

(***************************************************************************)
(* Bounds                                                                  *)
(***************************************************************************)
MaxLen == 1          \* longest text the user types
MaxResults == 2      \* most suggestions in one response
MaxInFlight == 2     \* most autocomplete fetches not yet settled
MaxSelects == 1      \* most full-record fetches not yet settled
TicksPerDelay == 2   \* clock ticks that make up the debounce delay
MaxOrphanLists == 1  \* most list elements that repeated initialization leaves behind

(***************************************************************************)
(* Text                                                                    *)
(***************************************************************************)
Chars == {" ", "a"}

RECURSIVE TextsOfLen(_)
TextsOfLen(n) ==
  IF n = 0 THEN {<<>>}
  ELSE {Append(s, c) : s \in TextsOfLen(n - 1), c \in Chars}

InputValues == UNION {TextsOfLen(n) : n \in 0..MaxLen}

IsSpace(c) == c = " "

RECURSIVE TrimStart(_)
TrimStart(s) ==
  IF s # <<>> /\ IsSpace(Head(s)) THEN TrimStart(Tail(s)) ELSE s

RECURSIVE TrimEnd(_)
TrimEnd(s) ==
  IF s # <<>> /\ IsSpace(s[Len(s)]) THEN TrimEnd(SubSeq(s, 1, Len(s) - 1)) ELSE s

\* String.prototype.trim
Trim(s) == TrimEnd(TrimStart(s))

Min(a, b) == IF a < b THEN a ELSE b
Max(a, b) == IF a > b THEN a ELSE b

(***************************************************************************)
(* JavaScript values                                                       *)
(***************************************************************************)
JsUndefined == [t |-> "undefined"]
JsNull == [t |-> "null"]
JsString(s) == [t |-> "string", v |-> s]
JsObject(f) == [t |-> "object", f |-> f]
JsNumber(n) == [t |-> "number", n |-> n]

\* the TypeError of a property read on null or undefined, as a value
JsThrown == [t |-> "throw"]

\* ToBoolean
Truthy(x) ==
  \/ x.t = "object"
  \/ (x.t = "string" /\ x.v # <<>>)
  \/ (x.t = "number" /\ x.n # 0)

\* x[k]: a TypeError for null and undefined, undefined for a property that
\* x does not have
GetProp(x, k) ==
  IF x.t \in {"null", "undefined", "throw"} THEN JsThrown
  ELSE IF x.t = "object" /\ k \in DOMAIN x.f THEN x.f[k] ELSE JsUndefined

\* the DOMString an element's value setter stores for a JavaScript value
\* (HTMLInputElement.value is [LegacyNullToEmptyString] DOMString)
ToDomString(x) ==
  CASE x.t = "string" -> x.v
    [] x.t = "null" -> <<>>
    [] x.t = "undefined" -> <<"u", "n", "d", "e", "f", "i", "n", "e", "d">>
    [] OTHER -> <<"[", "o", "b", "j", "e", "c", "t", "]">>

\* String(x) for the values a configuration holds
JsToString(x) ==
  CASE x.t = "string" -> x.v
    [] x.t = "number" -> <<<<"0", "1", "2", "3", "4", "5", "6", "7", "8", "9">>[x.n + 1]>>
    [] x.t = "null" -> <<"n", "u", "l", "l">>
    [] x.t = "undefined" -> <<"u", "n", "d", "e", "f", "i", "n", "e", "d">>
    [] OTHER -> <<"[", "o", "b", "j", "e", "c", "t", "]">>

(***************************************************************************)
(* Address records and suggestions of the remote API                       *)
(***************************************************************************)
Digit(i) == <<"0", "1", "2", "3", "4", "5", "6", "7", "8", "9">>[(i % 10) + 1]

\* the record GET <href> returns: the nested structure of interface DawaAddress
FullRecord(i) ==
  JsObject([id |-> JsString(<<"i", Digit(i)>>),
            href |-> JsString(<<"h", Digit(i)>>),
            adressebetegnelse |-> JsString(<<"B", Digit(i)>>),
            etage |-> JsNull,
            adgangsadresse |->
              JsObject([vejstykke |-> JsObject([navn |-> JsString(<<"v", Digit(i)>>)]),
                        husnr |-> JsString(<<Digit(i)>>),
                        postnummer |-> JsObject([nr |-> JsString(<<"p", Digit(i)>>),
                                                 navn |-> JsString(<<"c", Digit(i)>>)]),
                        kommune |-> JsObject([kode |-> JsString(<<"k", Digit(i)>>),
                                              navn |-> JsString(<<"n", Digit(i)>>)])]),
            historik |-> JsObject([aendret |-> JsString(<<"d", Digit(i)>>)])])

\* the flat record of an autocomplete suggestion: a link, no nested detail
PartialRecord(i) ==
  JsObject([id |-> JsString(<<"i", Digit(i)>>),
            href |-> JsString(<<"h", Digit(i)>>),
            etage |-> JsString(<<"e", Digit(i)>>),
            husnr |-> JsString(<<Digit(i)>>)])

\* a nested record with a null node, no kommune and no link
SparseRecord(i) ==
  JsObject([id |-> JsString(<<"i", Digit(i)>>),
            adressebetegnelse |-> JsString(<<"B", Digit(i)>>),
            adgangsadresse |-> JsObject([husnr |-> JsString(<<Digit(i)>>),
                                         postnummer |-> JsNull])])

\* a record whose floor and house number are empty strings
BlankRecord(i) ==
  JsObject([id |-> JsString(<<"i", Digit(i)>>),
            etage |-> JsString(<<>>),
            adgangsadresse |-> JsObject([husnr |-> JsString(<<>>)])])

\* the object of the _getValue test
TestObject ==
  JsObject([id |-> JsString(<<"1", "2", "3">>),
            adgangsadresse |->
              JsObject([vejstykke |-> JsObject([navn |-> JsString(<<"R">>)]),
                        husnr |-> JsString(<<"1">>),
                        postnummer |-> JsNull])])

\* the i-th suggestion the API can return (interface Suggestion)
Sugg(i) ==
  [tekst |-> <<"T", Digit(i)>>,
   adresse |-> CASE i % 4 = 1 -> PartialRecord(i)
                 [] i % 4 = 2 -> FullRecord(i)
                 [] i % 4 = 3 -> SparseRecord(i)
                 [] OTHER -> JsUndefined,
   isFuzzy |-> FALSE]

\* the bodies a 2xx autocomplete response can carry: the first n suggestions
\* of the catalogue
Responses == {[k \in 1..n |-> Sugg(k)] : n \in 0..MaxResults}

\* the record a 2xx response to GET <href> carries
DetailOf(href) ==
  LET i == CHOOSE k \in 0..9 : href = <<"h", Digit(k)>> IN FullRecord(i)

(***************************************************************************)
(* Configuration                                                           *)
(***************************************************************************)
NoConfig == [set |-> FALSE]

\* one entry of config.ui: a string mapping has mapper "none"
Entry(key, selector, mapper) ==
  [key |-> key, selector |-> selector, mapper |-> mapper]

\* NetsiAddress._defaults.ui, in insertion order
DefaultUi ==
  << Entry(<<"address">>, "#address", "none"),
     Entry(<<"etage">>, "#etage", "none"),
     Entry(<<"doer">>, "#doer", "none"),
     Entry(<<"adgangsadresse", "vejstykke", "navn">>, "#vejnavn", "none"),
     Entry(<<"adgangsadresse", "husnr">>, "#husnr", "none"),
     Entry(<<"adgangsadresse", "postnummer", "nr">>, "#postnr", "none"),
     Entry(<<"adgangsadresse", "postnummer", "navn">>, "#postnrnavn", "none"),
     Entry(<<"adgangsadresse", "kommune", "kode">>, "#kommunekode", "none"),
     Entry(<<"adgangsadresse", "kommune", "navn">>, "#kommune", "none") >>

DefaultFuzzy == FALSE

HasKey(ui, key) == \E i \in 1..Len(ui) : ui[i].key = key
ValueOf(ui, key) == ui[CHOOSE i \in 1..Len(ui) : ui[i].key = key]

RECURSIVE AppendNew(_, _)
AppendNew(ui, user) ==
  IF user = <<>> THEN ui
  ELSE IF HasKey(ui, Head(user).key) THEN AppendNew(ui, Tail(user))
       ELSE AppendNew(Append(ui, Head(user)), Tail(user))

\* a merge in which the built-in selectors win over the user's
MergeUiDefaultsWin(def, user) == AppendNew(def, user)

\* { ...defaults.ui, ...newConfig.ui }: a key keeps the position of its first
\* occurrence and takes the value of its last
MergeUi(def, user) ==
  AppendNew([i \in 1..Len(def) |->
               IF HasKey(user, def[i].key) THEN ValueOf(user, def[i].key)
               ELSE def[i]], user)

\* the empty object {}: the defaults apply
NoUserConfig == [ui |-> <<>>, fuzzyGiven |-> FALSE, fuzzy |-> FALSE, extra |-> <<>>]

\* the objects the host application assigns to config
UserConfigs ==
  { NoUserConfig,
    [ui |-> << Entry(<<"historik", "aendret">>, "#updated", "format"),
               Entry(<<"adgangsadresse", "postnummer", "nr">>, "#zip", "none"),
               Entry(<<"doer">>, "#doer", "upper"),
               Entry(<<"adgangsadresse", "supplerendebynavn">>, "#bynavn", "none") >>,
     fuzzyGiven |-> TRUE, fuzzy |-> TRUE,
     extra |-> << [key |-> "per_side", value |-> JsNumber(7)] >>],
    [ui |-> << Entry(<<"etage">>, "#etage", "upper") >>,
     fuzzyGiven |-> TRUE, fuzzy |-> TRUE, extra |-> <<>>],
    [ui |-> << Entry(<<"address">>, "#nowhere", "none") >>,
     fuzzyGiven |-> TRUE, fuzzy |-> FALSE, extra |-> <<>>],
    [ui |-> << Entry(<<"address">>, "", "none") >>,
     fuzzyGiven |-> FALSE, fuzzy |-> FALSE,
     extra |-> << [key |-> "type", value |-> JsString(<<"x">>)] >>] }

\* the object the config setter stores
MergeConfig(newConfig) ==
  [set |-> TRUE,
   useFuzzyFallback |-> IF newConfig.fuzzyGiven THEN newConfig.fuzzy ELSE DefaultFuzzy,
   extra |-> newConfig.extra,
   ui |-> MergeUi(DefaultUi, newConfig.ui)]

(***************************************************************************)
(* The document                                                            *)
(***************************************************************************)
InputSelector == "#address"

\* selectors of the other form controls of the page; "#doer" and "#zip"
\* match no element
FieldSelectors ==
  {"#etage", "#vejnavn", "#husnr", "#postnr", "#postnrnavn", "#kommunekode",
   "#kommune", "#updated", "#bynavn"}

\* document.querySelector(selector) finds an element
Matches(selector) == selector = InputSelector \/ selector \in FieldSelectors

(***************************************************************************)
(* The debounce timer                                                      *)
(***************************************************************************)
DebounceDelay == 350

\* the time one clock tick stands for
TickMs == (DebounceDelay + TicksPerDelay - 1) \div TicksPerDelay

\* clearTimeout(id)
ClearTimeout(ts, id) == ts \ {id}

\* debounce without clearTimeout
DebounceNoClear(ts, id, delay) ==
  [timers |-> ts \cup {delay}, timeoutId |-> delay]

\* the body of the function debounce returns: the new timers and timeoutId
Debounce(ts, id, delay) ==
  [timers |-> ClearTimeout(ts, id) \cup {delay}, timeoutId |-> delay]

(***************************************************************************)
(* Suggestion list                                                         *)
(***************************************************************************)
\* a rendering that shows the list whatever it holds
RenderSuggestionsShowsAlways(suggestions) ==
  IF listEl
  THEN [items |-> suggestions, visible |-> TRUE, hi |-> -1]
  ELSE [items |-> items, visible |-> visible, hi |-> highlightedIndex]

\* _renderSuggestions(suggestions): the list's items, visibility and highlight
RenderSuggestions(suggestions) ==
  IF listEl
  THEN [items |-> suggestions, visible |-> Len(suggestions) > 0, hi |-> -1]
  ELSE [items |-> items, visible |-> visible, hi |-> highlightedIndex]

\* _hideSuggestions()
HideSuggestions == IF listEl THEN FALSE ELSE visible

(***************************************************************************)
(* Lookup                                                                  *)
(***************************************************************************)
\* a query that is not trimmed
QueryUntrimmed == IF inputEl THEN inputValue ELSE <<>>

\* this._inputEl?.value.trim(): <<>> stands for both "" and undefined
Query == IF inputEl THEN Trim(inputValue) ELSE <<>>

\* the own keys of a stored configuration, in insertion order, with their
\* values; the value of ui is an object
ConfigKeys(cfg) ==
  << [key |-> "ui", value |-> JsObject(<<>>)],
     [key |-> "useFuzzyFallback",
      value |-> JsString(IF cfg.useFuzzyFallback THEN <<"t">> ELSE <<"f">>)] >>
  \o cfg.extra

\* the loop of _buildQueryParameters over the keys of cfg: params.set(key,
\* String(cfg[key])) for every key but "ui" and "useFuzzyFallback"
RECURSIVE ExtraParameters(_)
ExtraParameters(keys) ==
  IF keys = <<>> THEN <<>>
  ELSE LET k == Head(keys) IN
       IF k.key = "ui" \/ k.key = "useFuzzyFallback"
       THEN ExtraParameters(Tail(keys))
       ELSE <<[key |-> k.key, value |-> JsToString(k.value)]>> \o ExtraParameters(Tail(keys))

\* a builder that passes every key of the configuration on
BuildQueryParametersAllKeys(isFuzzy) ==
  [hasQ |-> Query # <<>>,
   q |-> Query,
   extra |-> [i \in 1..Len(ConfigKeys(config)) |->
                [key |-> ConfigKeys(config)[i].key,
                 value |-> JsToString(ConfigKeys(config)[i].value)]],
   fuzzy |-> isFuzzy]

\* _buildQueryParameters(isFuzzy): q when the trimmed value is not empty, the
\* other keys of the configuration, fuzzy when isFuzzy
BuildQueryParameters(isFuzzy) ==
  [hasQ |-> Query # <<>>,
   q |-> Query,
   extra |-> ExtraParameters(ConfigKeys(config)),
   fuzzy |-> isFuzzy]

\* lookup() that replaces the controller without aborting the old one
ReplaceWithoutAbort(rs) ==
  {[r EXCEPT !.cur = FALSE, !.latest = FALSE] : r \in rs}

\* this._abortController?.abort(); this._abortController = new AbortController():
\* every fetch that was given the old controller's signal is aborted
AbortAndReplace(rs) ==
  {[r EXCEPT !.aborted = r.aborted \/ r.cur, !.cur = FALSE, !.latest = FALSE] : r \in rs}

FreeId(rs) == CHOOSE i \in 1..(Cardinality(rs) + 1) : \A r \in rs : r.id # i

\* _fetchData that does not pass the signal to fetch
FetchDataNoSignal(rs, kind, params, latest) ==
  rs \cup {[id |-> FreeId(rs), kind |-> kind, params |-> params,
            cur |-> FALSE, aborted |-> FALSE, latest |-> latest]}

\* _fetchData(params): fetch(url, { signal: this._abortController?.signal })
FetchData(rs, kind, params, latest) ==
  rs \cup {[id |-> FreeId(rs), kind |-> kind, params |-> params,
            cur |-> TRUE, aborted |-> FALSE, latest |-> latest]}

\* a catch clause that logs every error
LookupCatchAll(errorName) == <<"NetsiAddress lookup failed:">>

\* the catch clause of lookup(): the messages it logs
LookupCatch(errorName) ==
  IF errorName # "AbortError" THEN <<"NetsiAddress lookup failed:">> ELSE <<>>

(***************************************************************************)
(* Selection                                                               *)
(***************************************************************************)
\* a reducer without its guard: (acc, part) => acc[part]
RECURSIVE GetValueUnguarded(_, _)
GetValueUnguarded(acc, path) ==
  IF path = <<>> THEN acc
  ELSE GetValueUnguarded(GetProp(acc, Head(path)), Tail(path))

\* _getValue(obj, path): path.split(".").reduce((acc, part) => acc && acc[part], obj)
RECURSIVE GetValue(_, _)
GetValue(acc, path) ==
  IF path = <<>> THEN acc
  ELSE GetValue(IF Truthy(acc) THEN GetProp(acc, Head(path)) ELSE acc, Tail(path))

\* the mapper functions of the configurations, called as
\* mapper(rawValue, addressData): "format" never throws and builds its text
\* from the raw value and the id of the record, "upper" calls a string
\* method of the raw value
ApplyMapper(mapper, rawValue, addressData) ==
  CASE mapper = "format" ->
         [threw |-> FALSE,
          value |-> IF Truthy(rawValue)
                    THEN JsString(<<"F">> \o ToDomString(rawValue)
                                  \o ToDomString(GetProp(addressData, "id")))
                    ELSE JsString(<<"?">>)]
    [] mapper = "upper" ->
         IF rawValue.t = "string"
         THEN [threw |-> FALSE, value |-> JsString(<<"U">> \o rawValue.v)]
         ELSE [threw |-> TRUE, value |-> JsUndefined]
    [] OTHER -> [threw |-> FALSE, value |-> rawValue]

\* a _populate that ignores the mapper
MappedValueRaw(mapper, rawValue, addressData) ==
  [threw |-> FALSE, value |-> rawValue]

\* _populate: mapper ? mapper(rawValue, addressData) : rawValue
MappedValue(mapper, rawValue, addressData) ==
  IF mapper # "none" THEN ApplyMapper(mapper, rawValue, addressData)
  ELSE [threw |-> FALSE, value |-> rawValue]

\* the values of the form controls, the primary input included
DomValues ==
  [s \in FieldSelectors \cup {InputSelector} |->
     IF s = InputSelector THEN inputValue ELSE fields[s]]

\* a loop body that calls the mapper before it looks for the target element
PopulateEntryMapperFirst(e, vals, addressData) ==
  IF e.selector = "" \/ e.key = <<"address">>
  THEN [vals |-> vals, threw |-> FALSE]
  ELSE LET rawValue == GetValue(addressData, e.key)
           m == MappedValue(e.mapper, rawValue, addressData)
       IN IF e.mapper # "none" /\ m.threw
          THEN [vals |-> vals, threw |-> TRUE]
          ELSE IF Matches(e.selector)
          THEN [vals |-> [vals EXCEPT ![e.selector] = ToDomString(m.value)],
                threw |-> FALSE]
          ELSE [vals |-> vals, threw |-> FALSE]

\* one iteration of the loop of _populate: the mapping is skipped when it is
\* empty, is the "address" mapping or has no target element; otherwise the
\* value is read, transformed and written
PopulateEntry(e, vals, addressData) ==
  IF e.selector = "" \/ e.key = <<"address">> \/ ~Matches(e.selector)
  THEN [vals |-> vals, threw |-> FALSE]
  ELSE LET rawValue == GetValue(addressData, e.key)
           m == MappedValue(e.mapper, rawValue, addressData)
       IN IF e.mapper # "none" /\ m.threw
          THEN [vals |-> vals, threw |-> TRUE]
          ELSE [vals |-> [vals EXCEPT ![e.selector] = ToDomString(m.value)],
                threw |-> FALSE]

\* the loop of _populate over Object.entries(this._config.ui), which an
\* exception leaves
RECURSIVE PopulateLoop(_, _, _)
PopulateLoop(ui, vals, addressData) ==
  IF ui = <<>> THEN [vals |-> vals, threw |-> FALSE]
  ELSE LET r == PopulateEntry(Head(ui), vals, addressData) IN
       IF r.threw THEN r ELSE PopulateLoop(Tail(ui), r.vals, addressData)

\* what _populate writes into the primary input
PrimaryText(item, addressData) ==
  ToDomString(GetProp(addressData, "adressebetegnelse"))

\* _populate(addressData), called by select(item)
Populate(item, addressData) ==
  IF ~config.set THEN [vals |-> DomValues, threw |-> TRUE]
  ELSE PopulateLoop(config.ui,
                    IF inputEl
                    THEN [DomValues EXCEPT ![InputSelector] = PrimaryText(item, addressData)]
                    ELSE DomValues,
                    addressData)

\* new CustomEvent("netsi-address:select", { detail: { address: addressData } })
\* with what a listener finds in the document when it receives the event
SelectEvent(addressData, vals, vis) ==
  [type |-> "netsi-address:select",
   detail |-> JsObject([address |-> addressData]),
   seenValues |-> vals,
   seenVisible |-> vis]

\* a select that dispatches the event before it writes the fields
SelectFinishEventFirst(item, addressData) ==
  LET p == Populate(item, addressData) IN
  IF p.threw
  THEN [vals |-> p.vals, visible |-> HideSuggestions,
        events |-> <<SelectEvent(addressData, DomValues, HideSuggestions)>>,
        outcome |-> "threw"]
  ELSE [vals |-> p.vals, visible |-> HideSuggestions,
        events |-> <<SelectEvent(addressData, DomValues, HideSuggestions)>>,
        outcome |-> "selected"]

\* select(item) from the point where addressData is resolved:
\* _populate, _hideSuggestions, dispatchEvent
SelectFinish(item, addressData) ==
  LET p == Populate(item, addressData) IN
  IF p.threw
  THEN [vals |-> p.vals, visible |-> visible, events |-> <<>>, outcome |-> "threw"]
  ELSE [vals |-> p.vals, visible |-> HideSuggestions,
        events |-> <<SelectEvent(addressData, p.vals, HideSuggestions)>>,
        outcome |-> "selected"]

\* a select that never asks for the full record
NeedsDetailNever(addressData) == FALSE

\* select(item): !addressData.adgangsadresse?.kommune && addressData.href
NeedsDetail(addressData) ==
  /\ ~Truthy(GetValue(addressData, <<"adgangsadresse", "kommune">>))
  /\ Truthy(GetProp(addressData, "href"))

\* the messages the catch clause of select() logs
SelectCatch == <<"NetsiAddress select failed:">>

\* a catch clause without its return: select goes on with the partial record
SelectOnFailureGoesOn(item) == SelectFinish(item, item.adresse)

\* select(item) when the request for the full record failed: the catch
\* clause returns
SelectOnFailure(item) ==
  [vals |-> DomValues, visible |-> visible, events |-> <<>>, outcome |-> "failed"]

(***************************************************************************)
(* Initial state: the element after construction                           *)
(***************************************************************************)
NoReq == [id |-> 0]
NoProbe == [called |-> FALSE]
NoOther == [set |-> FALSE, listInDom |-> FALSE, listening |-> FALSE]
NoItem == [tekst |-> <<>>]

\* the record of what a task did: the handler that ran, the messages it
\* logged, the events it dispatched, the network calls it issued, whether it
\* called _renderSuggestions, the fetch it continued from with the number of
\* suggestions received, for select() its outcome and its argument, for
\* the config setter the object it was given, and for an arrow key the key
\* and the highlight it found
Did(op) ==
  [op |-> op, errors |-> <<>>, events |-> <<>>, calls |-> 0, rendered |-> FALSE,
   req |-> NoReq, count |-> -1, outcome |-> "", item |-> NoItem,
   given |-> NoConfig, key |-> "", from |-> -1]

Init ==
  /\ config = NoConfig
  /\ inputEl = FALSE
  /\ listEl = FALSE
  /\ listInDom = FALSE
  /\ orphanLists = 0
  /\ styleInDom = FALSE
  /\ inputListening = FALSE
  /\ docListening = FALSE
  /\ inputValue = <<>>
  /\ fields = [s \in FieldSelectors |-> <<>>]
  /\ items = <<>>
  /\ visible = FALSE
  /\ highlightedIndex = -1
  /\ hasController = FALSE
  /\ reqs = {}
  /\ selReqs = {}
  /\ timers = {}
  /\ timeoutId = -1
  /\ sinceInput = DebounceDelay
  /\ burstInputs = 0
  /\ burstLookups = 0
  /\ last = Did("init")
  /\ probe = NoProbe
  /\ other = NoOther
  /\ selected = FALSE

lifecycleVars == <<config, inputEl, listEl, listInDom, orphanLists,
                   styleInDom, inputListening, docListening>>
timerVars == <<timers, timeoutId, sinceInput, burstInputs, burstLookups>>
listVars == <<items, visible, highlightedIndex>>

(***************************************************************************)
(* set config(newConfig) with _initialize()                                *)
(***************************************************************************)
\* an _initialize without its two checks
InitializeNoCheck(address) == <<>>

\* _initialize(): the messages of its two checks; it goes on to
\* _injectStyles, _createSuggestionsUI and _attachListeners when there is none
InitializeErrors(address) ==
  IF address = ""
  THEN <<"NetsiAddress: ui.address selector is mandatory in the config.">>
  ELSE IF ~Matches(address)
       THEN <<"NetsiAddress: Main input element not found with selector:">>
       ELSE <<>>

SetConfig(newConfig) ==
  LET merged == MergeConfig(newConfig)
      address == ValueOf(merged.ui, <<"address">>).selector
      errors == InitializeErrors(address)
  IN
  /\ config' = merged
  \* this._inputEl = document.querySelector(this._config.ui.address)
  /\ inputEl' = (IF address = "" THEN inputEl ELSE Matches(address))
  /\ IF errors # <<>>
     THEN /\ UNCHANGED <<listEl, listInDom, orphanLists, styleInDom,
                         inputListening, docListening, listVars>>
          /\ last' = [Did("config") EXCEPT !.given = newConfig, !.errors = errors]
     ELSE \* _injectStyles, _createSuggestionsUI, _attachListeners
          /\ styleInDom' = TRUE
          /\ orphanLists' = orphanLists + (IF listEl /\ listInDom THEN 1 ELSE 0)
          /\ listEl' = TRUE
          /\ listInDom' = TRUE
          /\ items' = <<>>
          /\ visible' = FALSE
          /\ UNCHANGED highlightedIndex
          /\ inputListening' = TRUE
          /\ docListening' = TRUE
          /\ last' = [Did("config") EXCEPT !.given = newConfig]
  /\ UNCHANGED <<inputValue, fields, hasController, reqs, selReqs, timerVars>>
  /\ UNCHANGED <<probe, other, selected>>

(***************************************************************************)
(* disconnectedCallback()                                                  *)
(***************************************************************************)
\* a teardown that leaves the style element in the document
TeardownKeepsStyle ==
  [inputListening |-> IF inputEl THEN FALSE ELSE inputListening,
   docListening |-> FALSE, listInDom |-> FALSE, styleInDom |-> styleInDom]

\* disconnectedCallback(): removeEventListener on this._inputEl when there is
\* one, on document and on window; this._suggestionsEl?.remove();
\* document.getElementById("netsi-address-styles")?.remove()
Teardown ==
  [inputListening |-> IF inputEl THEN FALSE ELSE inputListening,
   docListening |-> FALSE, listInDom |-> FALSE, styleInDom |-> FALSE]

Disconnect ==
  /\ config.set
  /\ inputListening' = Teardown.inputListening
  /\ docListening' = Teardown.docListening
  /\ listInDom' = Teardown.listInDom
  /\ styleInDom' = Teardown.styleInDom
  /\ last' = Did("disconnect")
  /\ UNCHANGED <<config, inputEl, listEl, orphanLists, inputValue,
                 fields, listVars, hasController, reqs, selReqs, timerVars>>
  /\ UNCHANGED <<probe, other, selected>>

(***************************************************************************)
(* A second element of the same class on the page, configured with the     *)
(* selector of an input of its own. The two elements share the document:   *)
(* the <style> element, found by its id                                    *)
(***************************************************************************)
\* the config setter of the second element, whose _initialize succeeds:
\* _injectStyles adds the <style> unless one is there, _createSuggestionsUI
\* appends its own <ul>, _attachListeners registers its listeners
OtherSetConfig ==
  /\ ~other.set
  /\ other' = [set |-> TRUE, listInDom |-> TRUE, listening |-> TRUE]
  /\ styleInDom' = TRUE
  /\ last' = Did("otherConfig")
  /\ UNCHANGED <<config, inputEl, listEl, listInDom, orphanLists, inputListening,
                 docListening, inputValue, fields, listVars, hasController, reqs,
                 selReqs, timerVars, probe, selected>>

\* disconnectedCallback() of the second element: its listeners and its <ul>
\* go, and so does whatever getElementById("netsi-address-styles") finds
OtherDisconnect ==
  /\ other.set
  /\ other' = [other EXCEPT !.listInDom = FALSE, !.listening = FALSE]
  /\ styleInDom' = FALSE
  /\ last' = Did("otherDisconnect")
  /\ UNCHANGED <<config, inputEl, listEl, listInDom, orphanLists, inputListening,
                 docListening, inputValue, fields, listVars, hasController, reqs,
                 selReqs, timerVars, probe, selected>>

(***************************************************************************)
(* The user types: an input event on the primary input, handled by the     *)
(* debounced lookup when the listener is registered                        *)
(***************************************************************************)
InputEvent(value) ==
  /\ inputValue' = value
  /\ IF inputListening
     THEN LET d == Debounce(timers, timeoutId, DebounceDelay) IN
          /\ timers' = d.timers
          /\ timeoutId' = d.timeoutId
          /\ sinceInput' = 0
          /\ burstInputs' = (IF burstLookups > 0 THEN 1 ELSE Min(burstInputs + 1, 2))
          /\ burstLookups' = 0
          /\ last' = Did("input")
     ELSE /\ UNCHANGED timerVars
          /\ last' = Did("typed")
  /\ selected' = FALSE
  /\ UNCHANGED <<lifecycleVars, fields, listVars, hasController, reqs, selReqs>>
  /\ UNCHANGED <<probe, other>>

(***************************************************************************)
(* Time passes                                                             *)
(***************************************************************************)
Tick ==
  /\ timers # {} \/ sinceInput < DebounceDelay
  /\ timers' = {Max(0, t - TickMs) : t \in timers}
  /\ timeoutId' = (IF timeoutId < 0 THEN timeoutId ELSE Max(0, timeoutId - TickMs))
  /\ sinceInput' = (IF sinceInput >= DebounceDelay THEN sinceInput ELSE sinceInput + TickMs)
  /\ UNCHANGED <<lifecycleVars, inputValue, fields, listVars, hasController,
                 reqs, selReqs, burstInputs, burstLookups, last>>
  /\ UNCHANGED <<probe, other, selected>>

(***************************************************************************)
(* A due timer fires: lookup() up to its first await                       *)
(***************************************************************************)
\* a lookup that tests the query before it aborts the previous lookup
LookupRequestsEmptyFirst(rs) ==
  IF Query = <<>> THEN rs
  ELSE FetchData(AbortAndReplace(rs), "primary", BuildQueryParameters(FALSE), TRUE)

\* lookup(): the fetches in flight after it has run up to its first await
LookupRequests(rs) ==
  IF Query = <<>> THEN AbortAndReplace(rs)
  ELSE FetchData(AbortAndReplace(rs), "primary", BuildQueryParameters(FALSE), TRUE)

TimerFire ==
  /\ 0 \in timers
  /\ timers' = timers \ {0}
  /\ timeoutId' = (IF timeoutId = 0 THEN -1 ELSE timeoutId)
  /\ burstLookups' = Min(burstLookups + 1, 2)
  /\ UNCHANGED <<sinceInput, burstInputs>>
  /\ hasController' = TRUE
  /\ reqs' = LookupRequests(reqs)
  /\ Cardinality(reqs') <= MaxInFlight
  /\ IF Query = <<>>
     THEN LET r == RenderSuggestions(<<>>) IN
          /\ items' = r.items
          /\ visible' = r.visible
          /\ highlightedIndex' = r.hi
          /\ last' = [Did("lookup") EXCEPT !.rendered = TRUE]
     ELSE /\ UNCHANGED listVars
          /\ last' = [Did("lookup") EXCEPT !.calls = 1]
  /\ UNCHANGED <<lifecycleVars, inputValue, fields, selReqs>>
  /\ UNCHANGED <<probe, other, selected>>

(***************************************************************************)
(* An autocomplete fetch settles and lookup() continues after its await    *)
(***************************************************************************)
\* a fallback that ignores the flag
FuzzyWantedAlways(data) == Len(data) = 0

\* lookup(): data.length === 0 && this._config.useFuzzyFallback
FuzzyWanted(data) == Len(data) = 0 /\ config.useFuzzyFallback

\* a lookup that leaves the fuzzy results as they came
TagNothing(data) == data

\* lookup(): data.forEach((item) => (item.isFuzzy = true))
TagFuzzy(data) == [i \in 1..Len(data) |-> [data[i] EXCEPT !.isFuzzy = TRUE]]

\* a 2xx response with a JSON body
Respond(r, data) ==
  /\ r \in reqs
  /\ ~r.aborted
  /\ IF r.kind = "primary" /\ FuzzyWanted(data)
     THEN /\ reqs' = FetchData(reqs \ {r}, "fuzzy", BuildQueryParameters(TRUE), r.latest)
          /\ UNCHANGED listVars
          /\ last' = [Did("respond") EXCEPT !.calls = 1, !.req = r, !.count = Len(data)]
     ELSE LET shown == RenderSuggestions(IF r.kind = "fuzzy" THEN TagFuzzy(data) ELSE data) IN
          /\ reqs' = reqs \ {r}
          /\ items' = shown.items
          /\ visible' = shown.visible
          /\ highlightedIndex' = shown.hi
          /\ last' = [Did("respond") EXCEPT !.rendered = TRUE, !.req = r, !.count = Len(data)]
  /\ UNCHANGED <<lifecycleVars, inputValue, fields, hasController, selReqs, timerVars>>
  /\ UNCHANGED <<probe, other, selected>>

\* a transport failure, a non-2xx status or an unreadable body
Fail(r) ==
  /\ r \in reqs
  /\ ~r.aborted
  /\ reqs' = reqs \ {r}
  /\ last' = [Did("fail") EXCEPT !.errors = LookupCatch("Error"), !.req = r]
  /\ UNCHANGED <<lifecycleVars, inputValue, fields, listVars, hasController,
                 selReqs, timerVars>>
  /\ UNCHANGED <<probe, other, selected>>

\* the rejection of a fetch whose signal was aborted
AbortSettle(r) ==
  /\ r \in reqs
  /\ r.aborted
  /\ reqs' = reqs \ {r}
  /\ last' = [Did("aborted") EXCEPT !.errors = LookupCatch("AbortError"), !.req = r]
  /\ UNCHANGED <<lifecycleVars, inputValue, fields, listVars, hasController,
                 selReqs, timerVars>>
  /\ UNCHANGED <<probe, other, selected>>

(***************************************************************************)
(* select(item)                                                            *)
(***************************************************************************)
FreeSelId(ss) == CHOOSE i \in 1..(Cardinality(ss) + 1) : \A x \in ss : x.id # i

\* a select without its first line
SelectReturnsEarlyNever(item) == FALSE

\* select(item): if (!item?.adresse) return
SelectReturnsEarly(item) == ~Truthy(item.adresse)

\* select(item) up to its first await, or to its end when it awaits nothing;
\* sets the variables a selection can change
Select(item) ==
  IF SelectReturnsEarly(item)
  THEN /\ UNCHANGED <<inputValue, fields, visible, selReqs, selected>>
       /\ last' = [Did("select") EXCEPT !.outcome = "noop", !.item = item]
  ELSE IF NeedsDetail(item.adresse)
  THEN /\ Cardinality(selReqs) < MaxSelects
       /\ selReqs' = selReqs \cup {[id |-> FreeSelId(selReqs), item |-> item,
                                    href |-> GetProp(item.adresse, "href").v,
                                    after |-> {x.id : x \in selReqs},
                                    newerDone |-> FALSE]}
       /\ UNCHANGED <<inputValue, fields, visible, selected>>
       /\ last' = [Did("select") EXCEPT !.outcome = "fetching", !.item = item, !.calls = 1]
  ELSE LET f == SelectFinish(item, item.adresse) IN
       /\ inputValue' = f.vals[InputSelector]
       /\ fields' = [s \in FieldSelectors |-> f.vals[s]]
       /\ visible' = f.visible
       /\ selected' = (selected \/ f.outcome = "selected")
       /\ selReqs' = {[x EXCEPT !.newerDone = @ \/ f.outcome = "selected"] : x \in selReqs}
       /\ last' = [Did("select") EXCEPT !.outcome = f.outcome, !.item = item,
                                        !.events = f.events]

\* the full record arrives: select() continues after its await
DetailOk(s) ==
  /\ s \in selReqs
  /\ LET f == SelectFinish(s.item, DetailOf(s.href)) IN
     /\ selReqs' = {[x EXCEPT !.after = @ \ {s.id},
                              !.newerDone = @ \/ (f.outcome = "selected" /\ x.id \in s.after)] :
                      x \in selReqs \ {s}}
     /\ inputValue' = f.vals[InputSelector]
     /\ fields' = [x \in FieldSelectors |-> f.vals[x]]
     /\ visible' = f.visible
     /\ selected' = (selected \/ f.outcome = "selected")
     /\ last' = [Did("detail") EXCEPT !.outcome = f.outcome, !.item = s.item,
                                      !.events = f.events, !.req = s]
  /\ UNCHANGED <<lifecycleVars, items, highlightedIndex, hasController, reqs, timerVars>>
  /\ UNCHANGED <<probe, other>>

\* the request for the full record fails: the catch clause of select()
DetailFail(s) ==
  /\ s \in selReqs
  /\ selReqs' = {[x EXCEPT !.after = @ \ {s.id}] : x \in selReqs \ {s}}
  /\ LET f == SelectOnFailure(s.item) IN
     /\ inputValue' = f.vals[InputSelector]
     /\ fields' = [x \in FieldSelectors |-> f.vals[x]]
     /\ visible' = f.visible
     /\ last' = [Did("detail") EXCEPT !.outcome = "failed", !.item = s.item,
                                      !.events = f.events, !.errors = SelectCatch]
  /\ UNCHANGED <<lifecycleVars, items, highlightedIndex, hasController, reqs, timerVars>>
  /\ UNCHANGED <<probe, other, selected>>

(***************************************************************************)
(* Keyboard and mouse                                                      *)
(***************************************************************************)
\* an index that stops at the last item
NoWrap(a, n) == Min(a, n - 1)

\* the % operator of JavaScript: the sign of the result is that of the dividend
JsRem(a, n) == IF a >= 0 THEN a % n ELSE -((-a) % n)

Keys == {"ArrowDown", "ArrowUp", "Enter", "Escape"}

\* a handler that counts the list items from one
HighlightedItemFromOne == items[Max(1, highlightedIndex)]

\* items[this._highlightedIndex]: the <li> the Enter key clicks, by the
\* suggestion its click listener holds
HighlightedItem == items[highlightedIndex + 1]

\* a handler that returns early only when the list is empty
KeydownIgnoredWhenEmpty == Len(items) = 0

\* the early return of _handleKeydown: the list lacks the class "visible"
\* or holds no <li>
KeydownIgnored == ~(listEl /\ visible) \/ Len(items) = 0

\* _handleKeydown(e), registered on the primary input
Keydown(key) ==
  /\ inputListening
  /\ IF KeydownIgnored
     THEN /\ UNCHANGED <<inputValue, fields, listVars, selReqs, selected>>
          /\ last' = [Did("keydown") EXCEPT !.outcome = "ignored"]
     ELSE CASE key = "ArrowDown" ->
                 /\ highlightedIndex' = JsRem(highlightedIndex + 1, Len(items))
                 /\ UNCHANGED <<inputValue, fields, items, visible, selReqs, selected>>
                 /\ last' = [Did("keydown") EXCEPT !.key = key, !.from = highlightedIndex]
            [] key = "ArrowUp" ->
                 /\ highlightedIndex' = JsRem(highlightedIndex - 1 + Len(items), Len(items))
                 /\ UNCHANGED <<inputValue, fields, items, visible, selReqs, selected>>
                 /\ last' = [Did("keydown") EXCEPT !.key = key, !.from = highlightedIndex]
            [] key = "Enter" ->
                 IF highlightedIndex > -1 /\ highlightedIndex < Len(items)
                 THEN \* items[i].click() runs the click listener of the <li>
                      /\ Select(HighlightedItem)
                      /\ UNCHANGED <<items, highlightedIndex>>
                 ELSE /\ UNCHANGED <<inputValue, fields, listVars, selReqs, selected>>
                      /\ last' = Did("keydown")
            [] OTHER ->
                 /\ visible' = HideSuggestions
                 /\ UNCHANGED <<inputValue, fields, items, highlightedIndex, selReqs, selected>>
                 /\ last' = Did("keydown")
  /\ UNCHANGED <<lifecycleVars, hasController, reqs, timerVars>>
  /\ UNCHANGED <<probe, other>>

\* the click listener _renderSuggestions puts on the i-th <li>:
\* () => this.select(item)
ClickListener(i) ==
  /\ i \in 1..Len(items)
  /\ Select(items[i])
  /\ UNCHANGED <<lifecycleVars, items, highlightedIndex, hasController, reqs, timerVars>>
  /\ UNCHANGED <<probe, other>>

\* the user clicks the i-th <li> of the open list, which is in the document:
\* its click listener runs; the click then bubbles to document, where
\* _handleClickOutside finds the target inside the list
ClickItem(i) ==
  /\ listEl /\ listInDom /\ visible
  /\ ClickListener(i)

\* where a click lands: on the element with id "address", inside the list
\* (not on an <li>), or anywhere else in the document
ClickTargets == {"input", "list", "elsewhere"}

\* a handler that hides the list wherever the click lands
HandleClickOutsideAnywhere(target) ==
  IF listEl THEN HideSuggestions ELSE visible

\* the body of _handleClickOutside(e): target is never null for a click;
\* target !== this._inputEl holds for every target when _inputEl is null
HandleClickOutside(target) ==
  IF listEl /\ ~(target = "input" /\ inputEl) /\ target # "list"
  THEN HideSuggestions
  ELSE visible

\* a click in the document reaches _handleClickOutside(e) by bubbling
ClickDocument(target) ==
  /\ docListening
  /\ target = "list" => listEl /\ listInDom
  /\ visible' = HandleClickOutside(target)
  /\ last' = [Did("click") EXCEPT !.key = target]
  /\ UNCHANGED <<lifecycleVars, inputValue, fields, items, highlightedIndex,
                 hasController, reqs, selReqs, timerVars>>
  /\ UNCHANGED <<probe, other, selected>>

(***************************************************************************)
(* A direct call of _getValue(obj, path)                                   *)
(***************************************************************************)
MaxDepth == 3        \* most segments of a path

PathSegments ==
  {"adgangsadresse", "vejstykke", "postnummer", "husnr", "navn", "nr", "etage"}

RECURSIVE PathsOfLen(_)
PathsOfLen(n) ==
  IF n = 0 THEN {<<>>}
  ELSE {<<c>> \o p : c \in PathSegments, p \in PathsOfLen(n - 1)}

\* path.split("."): a path has at least one segment
Paths == UNION {PathsOfLen(n) : n \in 1..MaxDepth}

PathObjects ==
  {TestObject, FullRecord(2), PartialRecord(1), SparseRecord(3), BlankRecord(4)}

componentVars == <<lifecycleVars, inputValue, fields, listVars, hasController,
                   reqs, selReqs, timerVars, last, other, selected>>

\* one call of the pure function per behaviour
CallGetValue(obj, path) ==
  /\ ~probe.called
  /\ probe' = [called |-> TRUE, obj |-> obj, path |-> path,
               result |-> GetValue(obj, path)]
  /\ UNCHANGED componentVars

NextGetValue == \E obj \in PathObjects : \E path \in Paths : CallGetValue(obj, path)

SpecGetValue == Init /\ [][NextGetValue]_vars

(***************************************************************************)
(* Specification                                                           *)
(***************************************************************************)
\* controller.abort() rejects the promise of every fetch that holds its
\* signal; the rejected lookup() resumes in the microtask checkpoint that
\* ends the task which called abort(), before any other task runs
NoPendingRejection == \A r \in reqs : ~r.aborted

\* Lookups: the host configures the element once and may remove it from the
\* document, the user types, time passes, timers fire, autocomplete fetches
\* settle and the user clicks outside the list
Next ==
  \/ \E r \in reqs : AbortSettle(r)
  \/ NoPendingRejection /\ \E c \in UserConfigs : ~config.set /\ SetConfig(c)
  \/ NoPendingRejection /\ Disconnect
  \/ NoPendingRejection /\ \E v \in InputValues : InputEvent(v)
  \/ NoPendingRejection /\ Tick
  \/ NoPendingRejection /\ TimerFire
  \/ NoPendingRejection /\ \E r \in reqs : \E data \in Responses : Respond(r, data)
  \/ NoPendingRejection /\ \E r \in reqs : Fail(r)
  \/ NoPendingRejection /\ \E t \in ClickTargets : ClickDocument(t)

Spec == Init /\ [][Next]_vars

(***************************************************************************)
(* Two elements on one page: the lookups of the first element and the      *)
(* lifecycle of the second                                                 *)
(***************************************************************************)
NextPage ==
  \/ Next
  \/ NoPendingRejection /\ OtherSetConfig
  \/ NoPendingRejection /\ OtherDisconnect

SpecPage == Init /\ [][NextPage]_vars

(***************************************************************************)
(* Selections: the dropdown is Open on the suggestions of a lookup that    *)
(* has settled; the user moves the highlight, selects by key or by click,  *)
(* clicks elsewhere, the requests for the full record settle and the       *)
(* element may be removed from the document                                *)
(***************************************************************************)
SelectInit ==
  \E u \in UserConfigs, v \in InputValues, data \in Responses, fz \in BOOLEAN :
    LET c == MergeConfig(u) IN
    /\ Matches(ValueOf(c.ui, <<"address">>).selector)
    /\ Trim(v) # <<>>
    /\ Len(data) > 0
    /\ fz => c.useFuzzyFallback
    /\ config = c
    /\ inputEl = TRUE
    /\ listEl = TRUE
    /\ listInDom = TRUE
    /\ orphanLists = 0
    /\ styleInDom = TRUE
    /\ inputListening = TRUE
    /\ docListening = TRUE
    /\ inputValue = v
    /\ fields = [s \in FieldSelectors |-> <<>>]
    /\ items = (IF fz THEN TagFuzzy(data) ELSE data)
    /\ visible = TRUE
    /\ highlightedIndex = -1
    /\ hasController = TRUE
    /\ reqs = {}
    /\ selReqs = {}
    /\ timers = {}
    /\ timeoutId = -1
    /\ sinceInput = DebounceDelay
    /\ burstInputs = 1
    /\ burstLookups = 1
    /\ last = [Did("respond") EXCEPT
                 !.rendered = TRUE,
                 !.count = Len(data),
                 !.req = [id |-> 1, kind |-> IF fz THEN "fuzzy" ELSE "primary",
                          params |-> [hasQ |-> TRUE, q |-> Trim(v),
                                      extra |-> ExtraParameters(ConfigKeys(c)),
                                      fuzzy |-> fz],
                          cur |-> TRUE, aborted |-> FALSE, latest |-> TRUE]]
    /\ probe = NoProbe
    /\ other = NoOther
    /\ selected = FALSE

NextSelect ==
  \/ Disconnect
  \/ \E k \in Keys : Keydown(k)
  \/ \E i \in 1..MaxResults : ClickItem(i)
  \/ \E t \in ClickTargets : ClickDocument(t)
  \/ \E s \in selReqs : DetailOk(s)
  \/ \E s \in selReqs : DetailFail(s)

SpecSelect == SelectInit /\ [][NextSelect]_vars

(***************************************************************************)
(* Selections on an element whose config the host assigns again            *)
(***************************************************************************)
NextReconfig ==
  \/ \E c \in UserConfigs : orphanLists < MaxOrphanLists /\ SetConfig(c)
  \/ NextSelect

SpecReconfig == SelectInit /\ [][NextReconfig]_vars

(***************************************************************************)
(* Lookups and selections together: over the Open list of an element with  *)
(* the default configuration the user goes on typing and clicks a          *)
(* suggestion while timers and fetches are pending                         *)
(***************************************************************************)
TypingInit == SelectInit /\ config = MergeConfig(NoUserConfig)

NextTyping ==
  \/ \E r \in reqs : AbortSettle(r)
  \/ NoPendingRejection /\ \E v \in InputValues : InputEvent(v)
  \/ NoPendingRejection /\ Tick
  \/ NoPendingRejection /\ TimerFire
  \/ NoPendingRejection /\ \E r \in reqs : \E data \in Responses : Respond(r, data)
  \/ NoPendingRejection /\ \E i \in 1..MaxResults : ClickItem(i)
  \/ NoPendingRejection /\ \E s \in selReqs : DetailOk(s)

SpecTyping == TypingInit /\ [][NextTyping]_vars

(***************************************************************************)
(* The host calls the public method select(item) with a suggestion of its  *)
(* own                                                                     *)
(***************************************************************************)
\* one suggestion of each kind of record: none, flat, full, sparse
HostItems == {Sugg(i) : i \in 0..3}

CallSelect(item) ==
  /\ Select(item)
  /\ UNCHANGED <<lifecycleVars, items, highlightedIndex, hasController, reqs, timerVars>>
  /\ UNCHANGED <<probe, other>>

NextCall ==
  \/ \E item \in HostItems : CallSelect(item)
  \/ \E s \in selReqs : DetailOk(s)
  \/ \E s \in selReqs : DetailFail(s)

SpecCall == SelectInit /\ [][NextCall]_vars

TypeOK ==
  /\ highlightedIndex \in -1..MaxResults
  /\ Cardinality(reqs) <= MaxInFlight
  /\ Cardinality(selReqs) <= MaxSelects

(***************************************************************************)
(* Overlapping lookups                                                     *)
(***************************************************************************)
LiveReqs == {r \in reqs : ~r.aborted}

\* C1: a response that is passed to _renderSuggestions is the response of
\* the most recently started lookup; the response of a lookup that a later
\* lookup has overtaken is never rendered, whenever the network answers:
\* the later lookup's abort() has rejected the overtaken fetch.
C1_OnlyLatestRendered ==
  (last.op = "respond" /\ last.rendered) => last.req.latest

\* two lookups overlapped and the later one's response is rendered: its
\* fetch was issued while the earlier fetch was outstanding, so it holds the
\* second request id
C1_Witness ==
  /\ last.op = "respond" /\ last.rendered /\ last.count > 0
  /\ last.req.id > 1 /\ last.req.latest

\* C3: at most one autocomplete fetch is live (issued, not settled, not
\* aborted), and a fuzzy fetch is never in flight together with a live
\* primary fetch.
C3_AtMostOneLive ==
  /\ Cardinality(LiveReqs) <= 1
  /\ \A r \in LiveReqs : r.cur

\* a new lookup started while a fuzzy fetch was outstanding: the fuzzy fetch
\* is aborted, the new primary fetch is live
C3_Witness ==
  \E r1 \in reqs : \E r2 \in reqs :
     /\ r1.aborted /\ r1.kind = "fuzzy"
     /\ ~r2.aborted /\ r2.kind = "primary"

(***************************************************************************)
(* Debounce                                                                *)
(***************************************************************************)
\* C2: input events that follow each other within the debounce delay cause
\* one lookup: one timer is pending after the burst, it fires no earlier
\* than DebounceDelay after the last event, no second lookup follows without
\* a new event, and the lookup reads the value the input holds when the
\* timer fires.
C2_Debounced ==
  /\ Cardinality(timers) <= 1
  /\ burstLookups <= 1
  /\ (burstInputs > 0 /\ burstLookups = 0) => Cardinality(timers) = 1
  /\ burstLookups = 1 => timers = {}
  /\ last.op = "lookup" =>
       /\ sinceInput >= DebounceDelay
       /\ last.calls = (IF inputEl /\ Trim(inputValue) # <<>> THEN 1 ELSE 0)
       /\ last.calls = 1 =>
            \E r \in reqs : /\ r.latest /\ r.kind = "primary" /\ ~r.aborted
                            /\ r.params.hasQ /\ r.params.q = Trim(inputValue)

\* a burst of two or more events has ended in its single lookup, which
\* issued a fetch
C2_Witness ==
  burstInputs >= 2 /\ burstLookups = 1 /\ last.op = "lookup" /\ last.calls = 1

(***************************************************************************)
(* Fuzzy fallback                                                          *)
(***************************************************************************)
\* C4: lookup() issues a second, fuzzy fetch exactly when its primary fetch
\* succeeded with zero suggestions and config.useFuzzyFallback is on; a
\* fuzzy response, a failure or an abort is followed by no further fetch.
C4_FuzzyIff ==
  /\ (last.op = "respond" /\ last.req.kind = "primary") =>
       (last.calls = 1 <=> (last.count = 0 /\ config.useFuzzyFallback))
  /\ (last.op = "respond" /\ last.req.kind = "fuzzy") => last.calls = 0
  /\ last.op \in {"fail", "aborted"} => last.calls = 0
  /\ \A r \in reqs : r.kind = "fuzzy" <=> r.params.fuzzy

\* a primary fetch returned nothing and the fuzzy fetch is in flight
C4_Witness ==
  /\ last.op = "respond" /\ last.req.kind = "primary" /\ last.calls = 1
  /\ \E r \in reqs : r.kind = "fuzzy" /\ ~r.aborted

(***************************************************************************)
(* Errors of a lookup                                                      *)
(***************************************************************************)
\* C5: after a fetch of a lookup failed with an error that is not a
\* cancellation, the error is logged, the dropdown is Closed and the lookup
\* issued no further fetch.
C5_FailureCloses ==
  last.op = "fail" =>
    /\ last.errors # <<>>
    /\ ~visible
    /\ last.calls = 0

\* C6: the settlement of an aborted fetch logs nothing and leaves the
\* dropdown, the rendered suggestions, the highlight and the form untouched.
C6_AbortSilent ==
  [][last'.op = "aborted" =>
       /\ last'.errors = <<>>
       /\ UNCHANGED <<items, visible, highlightedIndex, inputValue, fields>>]_vars

\* an aborted fetch settled while the dropdown was Open
C6_Witness ==
  last.op = "aborted" /\ visible /\ Len(items) > 0

(***************************************************************************)
(* Selection                                                               *)
(***************************************************************************)
\* the address record a finished selection dispatched
SelectedAddress == last.events[1].detail.f.address

\* what the mapping m of config.ui puts into its target for the record a
Expected(m, a) == ToDomString(ApplyMapper(m.mapper, GetValue(a, m.key), a).value)

\* the mappings of config.ui that have a target element in the document
Mapped == {i \in 1..Len(config.ui) :
             config.ui[i].key # <<"address">> /\ Matches(config.ui[i].selector)}

\* C7: after a successful select(suggestion) the primary search field holds
\* the suggestion's display text, suggestion.tekst.
C7_PrimaryIsTekst ==
  last.outcome = "selected" => inputValue = last.item.tekst

\* C8: select dispatches netsi-address:select after it has closed the list,
\* written the primary field and processed every mapping: what a listener
\* finds on receiving the event is the final state of the selection, with
\* every mapped target holding its new value.
C8_EventAfterWrites ==
  last.outcome = "selected" =>
    /\ Len(last.events) = 1
    /\ ~last.events[1].seenVisible
    /\ ~visible
    /\ last.events[1].seenValues = DomValues
    /\ \A i \in Mapped :
         last.events[1].seenValues[config.ui[i].selector] =
           Expected(config.ui[i], SelectedAddress)

\* a selection has finished and its fields are filled
C8_Witness ==
  /\ last.outcome = "selected" /\ Len(last.events) = 1
  /\ fields["#husnr"] # <<>> /\ fields["#kommune"] # <<>>

\* C9: a mapper that throws costs only its own field: the selection still
\* ends normally, the list is closed, the event is dispatched and every
\* other mapping with a target element is populated.
C9_MapperIsolated ==
  (last.op \in {"select", "detail"} /\ last.outcome \in {"selected", "threw"}) =>
    /\ last.outcome = "selected"
    /\ ~visible
    /\ Len(last.events) = 1
    /\ \A i \in Mapped :
         LET m == config.ui[i]
             a == IF last.op = "detail" THEN DetailOf(GetProp(last.item.adresse, "href").v)
                  ELSE last.item.adresse
         IN ~ApplyMapper(m.mapper, GetValue(a, m.key), a).threw =>
              DomValues[m.selector] = Expected(m, a)

\* C10: when the request for the full record fails, the selection is
\* abandoned: no form control, the primary field included, is written and
\* no event is dispatched.
C10_DetailFailureAborts ==
  [][(last'.op = "detail" /\ last'.outcome = "failed") =>
       /\ UNCHANGED <<inputValue, fields>>
       /\ last'.events = <<>>]_vars

\* the request for the full record of a selected suggestion has failed
C10_Witness ==
  last.op = "detail" /\ last.outcome = "failed" /\ last.errors # <<>>

(***************************************************************************)
(* The select event                                                        *)
(***************************************************************************)
\* the record a finished select() resolved: the suggestion's own record, or
\* the full record it fetched from the href of that record
Resolved ==
  IF last.op = "detail" THEN DetailOf(GetProp(last.item.adresse, "href").v)
  ELSE last.item.adresse

\* C11: a successful select() dispatches exactly one netsi-address:select
\* event and the detail of that event is the resolved address record itself,
\* not an object that holds it.
C11_DetailIsAddress ==
  last.outcome = "selected" =>
    /\ Len(last.events) = 1
    /\ last.events[1].type = "netsi-address:select"
    /\ last.events[1].detail = Resolved

(***************************************************************************)
(* Configuration                                                           *)
(***************************************************************************)
\* C12: the configuration the setter stores holds, for each of the nine
\* built-in paths, the mapping the given object has for that path and the
\* built-in selector when it has none, each path once; the extra top-level
\* keys of the given object as they are; and useFuzzyFallback on only when
\* the given object turns it on.
C12_EffectiveConfig ==
  last.op = "config" =>
    LET u == last.given IN
    /\ \A i \in 1..Len(DefaultUi) :
         LET d == DefaultUi[i] IN
         /\ Cardinality({j \in 1..Len(config.ui) : config.ui[j].key = d.key}) = 1
         /\ ValueOf(config.ui, d.key) =
              (IF HasKey(u.ui, d.key) THEN ValueOf(u.ui, d.key) ELSE d)
    /\ config.extra = u.extra
    /\ config.useFuzzyFallback = (u.fuzzyGiven /\ u.fuzzy)

\* the setter was given an object that replaces a built-in selector, brings
\* an extra key and turns the fuzzy fallback on
C12_Witness ==
  /\ last.op = "config"
  /\ HasKey(last.given.ui, <<"adgangsadresse", "postnummer", "nr">>)
  /\ last.given.extra # <<>>
  /\ last.given.fuzzyGiven /\ config.useFuzzyFallback

\* the merged configuration names no element for the primary search field
BadPrimarySelector ==
  LET address == ValueOf(config.ui, <<"address">>).selector IN
  address = "" \/ address \notin FieldSelectors \cup {InputSelector}

\* C13: when the merged configuration has no primary selector or one that
\* matches no element, the setter logs an error and the element stays inert:
\* no style and no list element are injected, no listener is registered, no
\* timer is started and no network call is issued, whatever the user does
\* afterwards.
C13_InertOnBadSelector ==
  (config.set /\ BadPrimarySelector) =>
    /\ last.op = "config" => Len(last.errors) = 1
    /\ ~styleInDom /\ ~listEl /\ ~listInDom
    /\ ~inputListening /\ ~docListening
    /\ timers = {} /\ reqs = {} /\ selReqs = {}
    /\ last.calls = 0

\* the user has typed into the page of an element whose primary selector
\* matched nothing
C13_Witness ==
  /\ config.set /\ BadPrimarySelector
  /\ last.op = "typed" /\ Trim(inputValue) # <<>>

(***************************************************************************)
(* Keyboard                                                                *)
(***************************************************************************)
\* C14: Enter on an Open dropdown with a highlighted item is a click on that
\* item: every step the Enter key takes is a step the click listener of the
\* highlighted <li> takes, with select() called on the same suggestion.
C14_EnterIsClick ==
  [][(Keydown("Enter") /\ visible /\ highlightedIndex >= 0) =>
       /\ ClickListener(highlightedIndex + 1)
       /\ last'.op = "select"
       /\ last'.item = items[highlightedIndex + 1]]_vars

\* a suggestion was selected while it was highlighted
C14_Witness ==
  /\ last.op = "select" /\ last.outcome = "selected"
  /\ highlightedIndex >= 0
  /\ last.item = items[highlightedIndex + 1]

(***************************************************************************)
(* Lookup of an empty query                                                *)
(***************************************************************************)
\* C15: a lookup() that finds the input empty or holding only whitespace
\* issues no network call and clears the list at once: no items, dropdown
\* Closed, no highlight, and no autocomplete fetch left live.
C15_EmptyQueryClears ==
  (last.op = "lookup" /\ Trim(inputValue) = <<>>) =>
    /\ last.calls = 0
    /\ LiveReqs = {}
    /\ last.rendered
    /\ items = <<>> /\ ~visible /\ highlightedIndex = -1

\* a lookup ran on an input of whitespace while an earlier lookup's fetch
\* was outstanding
C15_Witness ==
  /\ last.op = "lookup" /\ inputValue # <<>> /\ Trim(inputValue) = <<>>
  /\ \E r \in reqs : r.aborted

(***************************************************************************)
(* Teardown                                                                *)
(***************************************************************************)
\* nothing that initialization put into the document is left there
TornDown ==
  /\ ~inputListening /\ ~docListening
  /\ ~listInDom /\ ~styleInDom /\ orphanLists = 0

\* C16: disconnectedCallback leaves no listener of the element registered
\* (input and keydown on the input, click on document, resize and scroll on
\* window) and neither the list element nor the style element in the
\* document; called on an element that is already torn down it logs nothing
\* and changes nothing.
C16_TeardownIdempotent ==
  [][Disconnect =>
       /\ TornDown'
       /\ last'.errors = <<>>
       /\ TornDown => UNCHANGED <<config, inputEl, listEl, listInDom, orphanLists,
                                  styleInDom, inputListening, docListening,
                                  inputValue, fields, items, visible,
                                  highlightedIndex, hasController, reqs, selReqs,
                                  timers, timeoutId, sinceInput, burstInputs,
                                  burstLookups>>]_vars

\* an initialized element was torn down while a timer was pending
C16_Witness ==
  /\ last.op = "disconnect" /\ listEl /\ TornDown
  /\ timers # {}

(***************************************************************************)
(* Transforms                                                              *)
(***************************************************************************)
\* the mappings of config.ui that have a transform and a target element
Transformed == {i \in Mapped : config.ui[i].mapper # "none"}

\* C17: after a successful selection the target of every mapping that has a
\* transform holds what the transform returns for (the value at the
\* mapping's path in the resolved record, the resolved record), not the raw
\* value.
C17_TransformApplied ==
  last.outcome = "selected" =>
    \A i \in Transformed :
      LET m == config.ui[i]
          rawValue == GetValue(Resolved, m.key)
      IN DomValues[m.selector] =
           ToDomString(ApplyMapper(m.mapper, rawValue, Resolved).value)

\* a selection has filled the target of a transform with a text that is not
\* the raw value
C17_Witness ==
  /\ last.outcome = "selected"
  /\ \E i \in Transformed :
       LET m == config.ui[i] IN
       /\ Truthy(GetValue(Resolved, m.key))
       /\ DomValues[m.selector] # ToDomString(GetValue(Resolved, m.key))

(***************************************************************************)
(* Fuzzy results                                                           *)
(***************************************************************************)
\* C18: the suggestions rendered from a fuzzy response all carry the fuzzy
\* tag, which is what gives their <li> the "(Mente du?)" indicator, and the
\* suggestions rendered from a primary response carry none.
C18_FuzzyTagged ==
  (last.op = "respond" /\ last.rendered) =>
    /\ Len(items) = last.count
    /\ \A i \in 1..Len(items) : items[i].isFuzzy = (last.req.kind = "fuzzy")

\* a fuzzy response with suggestions was rendered
C18_Witness ==
  /\ last.op = "respond" /\ last.rendered /\ last.req.kind = "fuzzy"
  /\ Len(items) > 0 /\ items[1].isFuzzy

(***************************************************************************)
(* Highlight                                                               *)
(***************************************************************************)
\* the dropdown is Open and one of its items is highlighted
Highlighted ==
  /\ visible /\ Len(items) >= 1
  /\ highlightedIndex \in 0..(Len(items) - 1)

PassedThrough(params) ==
  /\ Len(params.extra) = Len(config.extra)
  /\ \A i \in 1..Len(config.extra) :
       /\ params.extra[i].key = config.extra[i].key
       /\ params.extra[i].value = JsToString(config.extra[i].value)
  /\ \A i \in 1..Len(params.extra) :
       params.extra[i].key \notin {"ui", "useFuzzyFallback"}

\* the autocomplete fetch the most recent task issued: that task left the
\* input value as _buildQueryParameters read it
JustIssued ==
  IF last.calls = 1 /\ last.op \in {"lookup", "respond"} THEN LiveReqs ELSE {}

RECURSIVE SegmentsExist(_, _)
SegmentsExist(obj, path) ==
  \/ path = <<>>
  \/ /\ obj.t = "object"
     /\ Head(path) \in DOMAIN obj.f
     /\ SegmentsExist(obj.f[Head(path)], Tail(path))

\* the node at which a walk along the path ends: the value at the path when
\* every segment exists, else the last node that was found
RECURSIVE StopNode(_, _)
StopNode(obj, path) ==
  IF path = <<>> \/ obj.t # "object" \/ Head(path) \notin DOMAIN obj.f
  THEN obj
  ELSE StopNode(obj.f[Head(path)], Tail(path))

\* C21 as stated: _getValue never throws; it returns the value at the path
\* when every segment exists and null or undefined when one is missing.
C21_AsStated ==
  probe.called =>
    /\ probe.result.t # "throw"
    /\ IF SegmentsExist(probe.obj, probe.path)
       THEN probe.result = StopNode(probe.obj, probe.path)
       ELSE probe.result.t \in {"null", "undefined"}

\* C21: _getValue never throws; it returns the value at the path when every
\* segment exists; when a segment is missing it returns the node the walk
\* stopped at if that node is falsy (null, or an empty string) and undefined
\* if that node is truthy.
C21_PathResolution ==
  probe.called =>
    LET stop == StopNode(probe.obj, probe.path) IN
    /\ probe.result.t # "throw"
    /\ IF SegmentsExist(probe.obj, probe.path)
       THEN probe.result = stop
       ELSE /\ ~Truthy(probe.result)
            /\ probe.result = (IF Truthy(stop) THEN JsUndefined ELSE stop)

\* _getValue was called with a path that leads through an empty string
C21_Witness ==
  /\ probe.called
  /\ ~SegmentsExist(probe.obj, probe.path)
  /\ probe.result = JsString(<<>>)

(***************************************************************************)
(* Highlight range                                                         *)
(***************************************************************************)
\* C22: highlightedIndex is at least -1 and less than the number of rendered
\* suggestions in every state, and it is -1 after every _renderSuggestions.
C22_HighlightInRange ==
  /\ highlightedIndex \in -1..(Len(items) - 1)
  /\ last.rendered => highlightedIndex = -1

(***************************************************************************)
(* Open and Closed                                                         *)
(***************************************************************************)
\* C23: the dropdown opens only in the step that renders a response with at
\* least one suggestion, an Open dropdown always holds at least one
\* suggestion, and after the rendering of a response with no suggestion the
\* dropdown is Closed.
C23_OpenHasItems ==
  [][/\ visible' => Len(items') >= 1
     /\ (~visible /\ visible') =>
          (last'.op = "respond" /\ last'.rendered /\ last'.count >= 1)
     /\ (last'.op = "respond" /\ last'.rendered /\ last'.count = 0) => ~visible']_vars

\* a response with no suggestion was rendered and the dropdown is Closed
C23_Witness ==
  /\ last.op = "respond" /\ last.rendered /\ last.count = 0
  /\ ~visible /\ items = <<>>

(***************************************************************************)
(* Closing the open list                                                   *)
(***************************************************************************)
\* the list is Open: it is in the document and shown
Open == listEl /\ listInDom /\ visible

\* C24: while the list is Open the key and click handlers are attached, the
\* Escape key closes it, and a click in the document closes it exactly when
\* its target is neither the primary input nor inside the list.
C24_EscapeAndClickOutside ==
  [][/\ Open => inputListening /\ docListening
     /\ (Open /\ Keydown("Escape")) => ~visible'
     /\ \A t \in ClickTargets :
          (Open /\ ClickDocument(t)) =>
            (~visible' <=> (~(t = "input" /\ inputEl) /\ t # "list"))]_vars

\* a click on the primary input has left the list Open
C24_Witness ==
  /\ last.op = "click" /\ last.key = "input"
  /\ inputEl /\ Open /\ Len(items) >= 1

(***************************************************************************)
(* Mappings without a target element                                       *)
(***************************************************************************)
\* the record the last selection step populated the form from
PopulatedRecord ==
  IF last.op = "detail" THEN DetailOf(GetProp(last.item.adresse, "href").v)
  ELSE last.item.adresse

\* the mappings of config.ui whose selector matches no element
Skipped == {i \in 1..Len(config.ui) :
              /\ config.ui[i].key # <<"address">>
              /\ config.ui[i].selector # ""
              /\ ~Matches(config.ui[i].selector)}

\* the mapper of the mapping m throws for the record a
MapperThrows(m, a) == ApplyMapper(m.mapper, GetValue(a, m.key), a).threw

\* C25: in a selection that has reached _populate, a mapping whose selector
\* matches no element costs nothing, whether or not its mapper would
\* succeed: when the mappers of the mappings that have a target element
\* succeed, the selection ends normally without an error, every such mapping
\* is written and the event is dispatched.
C25_MissingTargetSkipped ==
  (/\ last.op \in {"select", "detail"}
   /\ last.outcome \in {"selected", "threw"}
   /\ Skipped # {}
   /\ \A i \in Mapped : ~MapperThrows(config.ui[i], PopulatedRecord)) =>
    /\ last.outcome = "selected"
    /\ last.errors = <<>>
    /\ Len(last.events) = 1
    /\ \A i \in Mapped :
         DomValues[config.ui[i].selector] = Expected(config.ui[i], PopulatedRecord)

\* a selection has ended normally although the mapper of a mapping without
\* a target element throws for the selected record
C25_Witness ==
  /\ last.op \in {"select", "detail"} /\ last.outcome = "selected"
  /\ Len(last.events) = 1
  /\ \E i \in Skipped : MapperThrows(config.ui[i], PopulatedRecord)
  /\ \E i \in Mapped : DomValues[config.ui[i].selector] # <<>>

(***************************************************************************)
(* The full record                                                         *)
(***************************************************************************)
\* the record a has no adgangsadresse.kommune and carries a link
LacksDetailHasLink(a) ==
  LET aa == GetProp(a, "adgangsadresse") IN
  /\ aa.t # "object" \/ ~Truthy(GetProp(aa, "kommune"))
  /\ Truthy(GetProp(a, "href"))

\* the full record behind the link of the item of the last selection
FetchedRecord(l) == DetailOf(GetProp(l.item.adresse, "href").v)

\* C26: select(item) with a record asks for the full record exactly when the
\* record lacks adgangsadresse.kommune and carries a link; the step that
\* issues the request writes no form control, leaves the list as it is and
\* dispatches nothing; the selection that ends after the arrival of the full
\* record has written the primary input and every mapped target from the
\* full record and carries the full record in its event. A record that
\* holds the nested detail costs no network call.
C26_DetailBeforeWrites ==
  [][/\ (last'.op = "select" /\ Truthy(last'.item.adresse)) =>
          /\ LacksDetailHasLink(last'.item.adresse) <=> last'.outcome = "fetching"
          /\ last'.calls = IF LacksDetailHasLink(last'.item.adresse) THEN 1 ELSE 0
     /\ Cardinality(selReqs') > Cardinality(selReqs) =>
          /\ last'.op = "select" /\ last'.outcome = "fetching"
          /\ last'.events = <<>>
          /\ UNCHANGED <<inputValue, fields, visible>>
     /\ (Cardinality(selReqs') < Cardinality(selReqs) /\ last'.outcome = "selected") =>
          /\ last'.op = "detail"
          /\ Len(last'.events) = 1
          /\ last'.events[1].detail.f.address = FetchedRecord(last')
          /\ inputEl => inputValue' =
                          ToDomString(GetProp(FetchedRecord(last'), "adressebetegnelse"))
          /\ \A i \in Mapped :
               DomValues'[config.ui[i].selector] =
                 Expected(config.ui[i], FetchedRecord(last'))]_vars

\* a selection of a flat record has ended with the form filled from the
\* full record
C26_Witness ==
  /\ last.op = "detail" /\ last.outcome = "selected"
  /\ ~Truthy(GetProp(last.item.adresse, "adressebetegnelse"))
  /\ inputEl /\ inputValue = ToDomString(GetProp(FetchedRecord(last), "adressebetegnelse"))
  /\ fields["#kommune"] # <<>>

(***************************************************************************)
(* Two elements on one page                                                *)
(***************************************************************************)
\* the first element is initialized and has not been torn down
ThisLive == config.set /\ listEl /\ docListening

\* the second element is initialized and has not been torn down
OtherLive == other.set /\ other.listening

\* C27: when one of two initialized elements has been torn down, the <style>
\* element and the <ul> of the element that is still live are in the
\* document.
C27_OtherInstanceIntact ==
  /\ (last.op = "disconnect" /\ listEl /\ OtherLive) => (styleInDom /\ other.listInDom)
  /\ (last.op = "otherDisconnect" /\ ThisLive) => (styleInDom /\ listInDom)

(***************************************************************************)
(* A lookup without a network call overtakes a lookup in flight            *)
(***************************************************************************)
\* C28: a lookup that makes no network call leaves no fetch live and the
\* list Closed; a fetch that has been aborted never changes the list; and
\* the step that opens the list renders the response of a fetch that was
\* live before it, issued by a later lookup with a non-empty query.
C28_OvertakenByEmptyLookup ==
  [][/\ (last'.op = "lookup" /\ last'.calls = 0) => (LiveReqs' = {} /\ ~visible')
     /\ (\E r \in reqs : r.aborted) => UNCHANGED listVars
     /\ (~visible /\ visible') =>
          /\ last'.op = "respond" /\ last'.rendered
          /\ \E r \in reqs : r.id = last'.req.id /\ ~r.aborted /\ r.cur]_vars

\* a lookup on an input of whitespace has aborted the fetch of an earlier
\* lookup for a non-empty query, and the list is Closed
C28_Witness ==
  /\ last.op = "lookup" /\ last.calls = 0
  /\ ~visible
  /\ \E r \in reqs : r.aborted /\ r.kind = "primary" /\ r.params.hasQ /\ r.params.q # <<>>

(***************************************************************************)
(* The query of the fuzzy request                                          *)
(***************************************************************************)
\* C29: the fuzzy request a lookup issues after an empty primary response
\* carries the q of that primary request.
C29_FuzzySameQuery ==
  (last.op = "respond" /\ last.calls = 1) =>
    \A r \in JustIssued :
      /\ r.kind = "fuzzy"
      /\ r.params.hasQ /\ r.params.q = last.req.params.q

(***************************************************************************)
(* The query of every request                                              *)
(***************************************************************************)
\* C30: every autocomplete request in flight, primary or fuzzy, carries a q
\* that is not empty after trimming.
C30_QueryNeverEmpty ==
  \A r \in reqs : r.params.hasQ /\ Trim(r.params.q) # <<>>

(***************************************************************************)
(* After teardown                                                          *)
(***************************************************************************)
\* the element was initialized and disconnectedCallback has run since
Disconnected == listEl /\ ~docListening

\* C31: once disconnectedCallback has run, no lookup issues a fetch and no
\* response is rendered or followed by a fuzzy fetch, whatever timer was
\* pending and whatever fetch was in flight at the teardown.
C31_QuietAfterTeardown ==
  [][Disconnected =>
       /\ ~(TimerFire /\ last'.calls = 1)
       /\ \A r \in reqs : \A data \in Responses :
            ~(Respond(r, data) /\ (last'.calls = 1 \/ last'.rendered))]_vars

(***************************************************************************)
(* After a selection                                                       *)
(***************************************************************************)
\* C32: from a successful selection to the next input event the list is
\* Closed: no timer that was pending and no fetch that was in flight at the
\* selection opens it again.
C32_ClosedAfterSelection ==
  selected => ~visible

(***************************************************************************)
(* Overlapping selections                                                  *)
(***************************************************************************)
\* C33: when the last pending selection has written its values, no selection
\* that started after it had written before it: the form holds the values
\* of the most recently started selection, whatever the order of arrival of
\* the full records.
C33_LatestSelectionWins ==
  (last.op = "detail" /\ last.outcome = "selected" /\ selReqs = {}) =>
    ~last.req.newerDone

(***************************************************************************)
(* Configuration assigned again                                            *)
(***************************************************************************)
\* the <ul> elements in the document that this element created
ListsInDom == (IF listInDom THEN 1 ELSE 0) + orphanLists

\* C34: however often config is assigned, the document holds at most one
\* <ul> of the element, and after disconnectedCallback it holds none and no
\* listener of the element is registered.
C34_OneListOneListener ==
  /\ ListsInDom <= 1
  /\ last.op = "disconnect" =>
       (ListsInDom = 0 /\ ~inputListening /\ ~docListening)

(***************************************************************************)
(* Keys while the list is Closed                                           *)
(***************************************************************************)
\* C35: while the list is Closed, a keydown of ArrowDown, ArrowUp, Enter or
\* Escape leaves the highlight, the rendered suggestions, the list's
\* visibility and every form control as they are, starts no request for a
\* full record and dispatches no event.
C35_KeysIgnoredWhenClosed ==
  [][\A k \in Keys :
       (~visible /\ Keydown(k)) =>
         /\ UNCHANGED <<highlightedIndex, items, visible, inputValue, fields, selReqs>>
         /\ last'.op = "keydown" /\ last'.events = <<>> /\ last'.calls = 0]_vars

\* a key was pressed after Escape had closed a list with a highlighted item
C35_Witness ==
  /\ last.op = "keydown" /\ last.outcome = "ignored"
  /\ ~visible /\ Len(items) >= 1 /\ highlightedIndex >= 0

(***************************************************************************)
(* Paths missing from the record                                           *)
(***************************************************************************)
\* the path of the mapping m is missing from the record a: a segment is
\* absent or the path ends on null
PathMissing(m, a) ==
  \/ ~SegmentsExist(a, m.key)
  \/ StopNode(a, m.key).t \in {"null", "undefined"}

\* C36: after a successful selection, the target of every mapping without a
\* transform whose path is missing from the record holds the empty string.
C36_MissingPathWritesEmpty ==
  (last.op \in {"select", "detail"} /\ last.outcome = "selected") =>
    \A i \in Mapped :
      (config.ui[i].mapper = "none" /\ PathMissing(config.ui[i], PopulatedRecord)) =>
        DomValues[config.ui[i].selector] = <<>>

(***************************************************************************)
(* The first arrow key                                                     *)
(***************************************************************************)
\* the list is shown with at least one item and none of them highlighted
NothingHighlighted ==
  listEl /\ visible /\ Len(items) >= 1 /\ highlightedIndex = -1

\* C37: with nothing highlighted, ArrowDown highlights the first item and
\* ArrowUp the last one.
C37_FirstArrow ==
  [][NothingHighlighted =>
       /\ Keydown("ArrowDown") => highlightedIndex' = 0
       /\ Keydown("ArrowUp") => highlightedIndex' = Len(items) - 1]_vars

(***************************************************************************)
(* select() without an address record                                      *)
(***************************************************************************)
\* C38: select(item) with an item that carries no address record requests
\* nothing, writes no form control, leaves the list and its visibility as
\* they are, dispatches no event and logs nothing.
C38_SelectWithoutRecord ==
  [][\A item \in HostItems :
       (CallSelect(item) /\ ~Truthy(item.adresse)) =>
         /\ UNCHANGED <<inputValue, fields, visible, items, highlightedIndex,
                        selReqs, reqs>>
         /\ last'.calls = 0 /\ last'.events = <<>> /\ last'.errors = <<>>]_vars

\* select was called without a record after an earlier selection had filled
\* the form
C38_Witness ==
  /\ last.op = "select" /\ last.outcome = "noop"
  /\ ~Truthy(last.item.adresse)
  /\ fields["#husnr"] # <<>> /\ inputValue # <<>>

====
